---- MODULE Spec2Model ----
(***************************************************************************)
(* The ingestion pipeline of build_weather_page.py: the rain normaliser,   *)
(* the minute alignment, the outer join, the merge into weather.parquet,   *)
(* the snow ledger and the monthly extracts.                               *)
(*                                                                         *)
(* Conventions.  A missing value (NaN, None, pd.NA) is NA, the empty       *)
(* tuple; a present number x is the one-tuple <<x>>.  A timestamp is the   *)
(* number of seconds since 2024-01-01T00:00:00.  A rain amount is an       *)
(* integer number of 1/UnitsPerMm millimetres, so that rate x hours stays  *)
(* exact.  A DataFrame is the sequence of its rows, in row order.          *)
(***************************************************************************)
EXTENDS Integers, Sequences, FiniteSets, TLC

VARIABLES
    rain_df,          \* rain_to_interval_mm: the table it is given
    rain_mm,          \* rain_to_interval_mm: the Series it returned
    rpc,              \* "build" while the table is being written, then "done"
    importer,         \* importer/*.csv: file name -> what parse_station_csv makes of it
    arkiv,            \* arkiv/: target name -> the file moved there
    weather_parquet,  \* store/weather.parquet: <<>> when absent, else <<rows>>
    snow_parquet,     \* store/snow.parquet: <<>> when absent, else <<rows>>
    sno_csv,          \* manuelt/sno.csv: <<>> when absent, else <<table>>
    data,             \* data/<month>.json: month -> the columnar extract
    snow_json,        \* data/snow.json: <<>> when absent, else <<extract>>
    manifest,         \* data/manifest.json: <<>> when absent, else <<manifest>>
    index_html,       \* index.html is written
    pc,               \* the statement of main() that runs next
    months,           \* main(): the list generate_monthly_json returned
    ingest,           \* ingest_import_folder(): its locals in the last call
    latest,           \* history: Time -> its Reading in the last batch that held it
    snow_latest,      \* history: date -> its last value in the last snow file that held it
    replay,           \* history: the last batch being ingested a second time
    start,            \* history: the persisted state when the current run began
    clean,            \* history: nothing happened since a run completed
    written,          \* history: the files the current run has written
    drops             \* history: the batches put into importer/ so far

rainVars == <<rain_df, rain_mm, rpc>>
diskVars == <<importer, arkiv, weather_parquet, snow_parquet, sno_csv, data,
              snow_json, manifest, index_html>>
runVars == <<pc, months, ingest>>
histVars == <<latest, snow_latest, replay, start, clean, written, drops>>
pipeVars == <<diskVars, runVars, histVars>>
vars == <<rainVars, pipeVars>>

-----------------------------------------------------------------------------
(* Values *)

NA == <<>>
V(x) == <<x>>
IsNA(x) == x = NA
Num(x) == x[1]

SecondsPerHour == 3600
UnitsPerMm == SecondsPerHour
Mm(x) == x * UnitsPerMm

RECURSIVE SeqSum(_)
SeqSum(s) == IF s = <<>> THEN 0 ELSE s[1] + SeqSum(Tail(s))

-----------------------------------------------------------------------------
(* Bounds of the rain tables *)

MaxRawRows == 11      \* rows of a table without a rate column
MaxRateRows == 3      \* rows of a table with a rate column
SampleSeconds == 60   \* sampling step of the tables without a rate column
MaxMissing == 1       \* missing raw values of a table without a rate column

RawVals == {NA, V(Mm(0)), V(Mm(1))}
RateVals == {NA, V(0), V(4), V(-2)}
RateRawVals == {NA, V(Mm(1))}
Gaps == {1800, 3600}

-----------------------------------------------------------------------------
(* rain_to_interval_mm *)

RainRow(t, rate, raw) == [Time |-> t, rain_rate_mmh |-> rate, rain_raw |-> raw]

\* Series.diff(): NaN in the first row and wherever either operand is NaN.
Diff(col, i) ==
    IF i = 1 \/ IsNA(col[i]) \/ IsNA(col[i - 1])
    THEN NA
    ELSE V(Num(col[i]) - Num(col[i - 1]))

\* (dif.fillna(0) >= 0).mean() > 0.90, as an exact comparison of integers:
\* count / n > 90 / 100.
NondecPercent == 90

NondecCount(dif) ==
    Cardinality({i \in DOMAIN dif : IsNA(dif[i]) \/ Num(dif[i]) >= 0})

\* Variant: a lower threshold (70%), under which [10, 12, 3, 7] is a counter.
LooksCumulativeAbove70(dif) ==
    100 * NondecCount(dif) > 70 * Len(dif)

\* Variant: a ratio of exactly 90% accepted (>= for >).
LooksCumulativeAtLeast(dif) ==
    100 * NondecCount(dif) >= NondecPercent * Len(dif)

LooksCumulative(dif) ==
    100 * NondecCount(dif) > NondecPercent * Len(dif)

\* Variant: the rate branch without line 674 (negatives kept).
RateToMmUnclamped(rows) ==
    [i \in DOMAIN rows |->
        LET rate == IF IsNA(rows[i].rain_rate_mmh) THEN 0
                    ELSE Num(rows[i].rain_rate_mmh)
            dt == IF i = 1 THEN 0 ELSE rows[i].Time - rows[i - 1].Time
        IN  V((rate * dt * UnitsPerMm) \div SecondsPerHour)]

\* The rate branch: rate.fillna(0) * dt, dt in hours (0 in the first row),
\* negatives set to 0.
RateToMm(rows) ==
    [i \in DOMAIN rows |->
        LET rate == IF IsNA(rows[i].rain_rate_mmh) THEN 0
                    ELSE Num(rows[i].rain_rate_mmh)
            dt == IF i = 1 THEN 0 ELSE rows[i].Time - rows[i - 1].Time
            mm == (rate * dt * UnitsPerMm) \div SecondsPerHour
        IN  V(IF mm < 0 THEN 0 ELSE mm)]

\* Variant: the raw branch with the first row's counter value kept as its
\* interval.
RawToMmFirstRaw(rows) ==
    LET raw == [i \in DOMAIN rows |-> rows[i].rain_raw]
        dif == [i \in DOMAIN rows |-> Diff(raw, i)]
    IN  IF LooksCumulative(dif)
        THEN [i \in DOMAIN rows |->
                IF i = 1 THEN raw[1]
                ELSE IF IsNA(dif[i]) \/ Num(dif[i]) < 0 THEN V(0) ELSE dif[i]]
        ELSE raw

\* The raw branch.
RawToMm(rows) ==
    LET raw == [i \in DOMAIN rows |-> rows[i].rain_raw]
        dif == [i \in DOMAIN rows |-> Diff(raw, i)]
    IN  IF LooksCumulative(dif)
        THEN [i \in DOMAIN rows |->
                IF IsNA(dif[i]) \/ Num(dif[i]) < 0 THEN V(0) ELSE dif[i]]
        ELSE raw

\* rows: the table sorted by Time (line 668; the tables of this model are
\* built in time order with distinct times, as line 744 leaves them).
RainToIntervalMm(rows) ==
    IF \E i \in DOMAIN rows : ~IsNA(rows[i].rain_rate_mmh)
    THEN RateToMm(rows)
    ELSE IF \E i \in DOMAIN rows : ~IsNA(rows[i].rain_raw)
    THEN RawToMm(rows)
    ELSE [i \in DOMAIN rows |-> NA]

-----------------------------------------------------------------------------
(* Timestamps: seconds since 2024-01-01T00:00:00 *)

SecondsPerMinute == 60
SecondsPerDay == 86400
DaysInMonth == <<31, 29, 31, 30, 31, 30, 31, 31, 30, 31, 30, 31>>

RECURSIVE MonthStart(_)
MonthStart(m) ==
    IF m = 1 THEN 0 ELSE MonthStart(m - 1) + DaysInMonth[m - 1] * SecondsPerDay

At(month, day, h, m, sec) ==
    MonthStart(month) + (day - 1) * SecondsPerDay + h * SecondsPerHour
        + m * SecondsPerMinute + sec

\* dt.strftime("%Y-%m"): the month of 2024, 1..12 (label "2024-01" .. "2024-12").
MonthOf(t) ==
    CHOOSE m \in 1..12 : MonthStart(m) <= t /\ (m = 12 \/ t < MonthStart(m + 1))

\* strftime('%Y-%m-%d'): the day, counted from 2024-01-01.
DayOf(t) == t \div SecondsPerDay

\* dt.floor("min")
FloorMin(t) == (t \div SecondsPerMinute) * SecondsPerMinute

\* dt.normalize()
FloorDay(t) == (t \div SecondsPerDay) * SecondsPerDay

-----------------------------------------------------------------------------
(* DataFrames *)

RECURSIVE Ascending(_)
Ascending(S) ==
    IF S = {} THEN <<>>
    ELSE LET m == CHOOSE x \in S : \A y \in S : x <= y
         IN  <<m>> \o Ascending(S \ {m})

RECURSIVE Descending(_)
Descending(S) ==
    IF S = {} THEN <<>>
    ELSE LET m == CHOOSE x \in S : \A y \in S : x >= y
         IN  <<m>> \o Descending(S \ {m})

Greatest(S) == CHOOSE x \in S : \A y \in S : x >= y

RECURSIVE Pick(_, _, _)
Pick(s, I, i) ==
    IF i > Len(s) THEN <<>>
    ELSE (IF i \in I THEN <<s[i]>> ELSE <<>>) \o Pick(s, I, i + 1)

\* The rows at the positions I, in row order.
RowsAt(s, I) == Pick(s, I, 1)

RemoveAt(s, i) == SubSeq(s, 1, i - 1) \o SubSeq(s, i + 1, Len(s))

Times(s) == [i \in DOMAIN s |-> s[i].Time]
MinuteKeys(s) == [i \in DOMAIN s |-> FloorMin(s[i].Time)]

\* df.sort_values("Time") with the default kind="quicksort", which is not
\* stable: the rows come out ascending by Time, rows of equal Time in an
\* order the sort does not promise.  The set of the orders it may return.
\* (numpy's introsort happens to keep equal keys in order in a frame of at
\* most 16 rows and not in a longer one; the short frames here stand for
\* frames of any length.)
RECURSIVE SortValues(_)
SortValues(s) ==
    IF s = <<>> THEN {<<>>}
    ELSE LET least == CHOOSE t \in {s[i].Time : i \in DOMAIN s} :
                          \A i \in DOMAIN s : t <= s[i].Time
             firsts == {i \in DOMAIN s : s[i].Time = least}
         IN  UNION {{<<s[i]>> \o r : r \in SortValues(RemoveAt(s, i))} :
                      i \in firsts}

\* sort_values("Time") of rows whose times are distinct: the one order.
SortedByTime(s) == CHOOSE r \in SortValues(s) : TRUE

\* drop_duplicates(subset=[key]) (keep="first"); k: the key of each row.
DropDuplicatesFirst(s, k) ==
    RowsAt(s, {i \in DOMAIN s : \A j \in 1..(i - 1) : k[j] # k[i]})

\* drop_duplicates(subset=[key], keep="last").
DropDuplicatesLast(s, k) ==
    RowsAt(s, {i \in DOMAIN s : \A j \in (i + 1)..Len(s) : k[j] # k[i]})

\* pd.concat(parts, ignore_index=True): the union of the columns, the rows
\* one part after the other (a column a part lacks is NA in its rows).
RECURSIVE Concat(_)
Concat(parts) ==
    IF parts = <<>> THEN [cols |-> {}, rows |-> <<>>]
    ELSE LET rest == Concat(Tail(parts))
         IN  [cols |-> parts[1].cols \cup rest.cols,
              rows |-> parts[1].rows \o rest.rows]

-----------------------------------------------------------------------------
(* ingest_import_folder: from the parsed files to the batch *)

MetCols == {"temperature_c", "humidity_rh", "windspeed_kmh", "windheading"}

MetRow(t, temp, hum, speed, head) ==
    [Time |-> t, temperature_c |-> temp, humidity_rh |-> hum,
     windspeed_kmh |-> speed, windheading |-> head]

Reading(t, temp, hum, speed, head, rain) ==
    [Time |-> t, temperature_c |-> temp, humidity_rh |-> hum,
     windspeed_kmh |-> speed, windheading |-> head, rain_mm |-> rain]

\* files = sorted(IMPORT_DIR.glob("*.csv")), and the frames of one kind in
\* that order.
SortedFiles(imp) == Ascending(DOMAIN imp)

Parts(imp, kind) ==
    LET names == Ascending({n \in DOMAIN imp : imp[n].kind = kind})
    IN  [i \in DOMAIN names |-> imp[names[i]].df]

\* Lines 738-741: the meteorological stream of the batch.
MetStream(parts) ==
    IF parts = <<>> THEN [cols |-> MetCols, rows |-> <<>>]
    ELSE LET c == Concat(parts)
         IN  [cols |-> c.cols,
              rows |-> SortedByTime(DropDuplicatesFirst(c.rows, Times(c.rows)))]

\* Lines 743-748: the rain stream of the batch, rain_mm per sample.
RainStream(parts) ==
    IF parts = <<>> THEN <<>>
    ELSE LET c == Concat(parts)
             rain == SortedByTime(DropDuplicatesFirst(c.rows, Times(c.rows)))
             mm == RainToIntervalMm(rain)
         IN  [i \in DOMAIN rain |-> [Time |-> rain[i].Time, rain_mm |-> mm[i]]]

\* groupby("Time_key")["windspeed_kmh"].idxmax(): the first row of the minute
\* (in time order) with the greatest wind speed, NA when the minute has none.
IdxMax(rows, key) ==
    LET G == {i \in DOMAIN rows :
                 FloorMin(rows[i].Time) = key /\ ~IsNA(rows[i].windspeed_kmh)}
    IN  IF G = {} THEN NA
        ELSE V(CHOOSE i \in G : \A j \in G :
                  \/ Num(rows[j].windspeed_kmh) < Num(rows[i].windspeed_kmh)
                  \/ (rows[j].windspeed_kmh = rows[i].windspeed_kmh /\ i <= j))

HasWind(met) ==
    /\ "windspeed_kmh" \in met.cols
    /\ \E i \in DOMAIN met.rows : ~IsNA(met.rows[i].windspeed_kmh)

\* met.loc[idx_max, ["Time_key", "windspeed_kmh", "windheading"]] raises
\* KeyError for a NaN label (a minute without any wind speed) and for a
\* missing windheading column.
WindLookupRaises(met) ==
    /\ met.rows # <<>>
    /\ HasWind(met)
    /\ \/ "windheading" \notin met.cols
       \/ \E i \in DOMAIN met.rows :
             IsNA(IdxMax(met.rows, FloorMin(met.rows[i].Time)))

\* Lines 753-770: one row per minute.  met.rows are in time order.
AlignMet(met) ==
    LET rows == met.rows
        last == DropDuplicatesLast(rows, MinuteKeys(rows))
    IN  IF rows = <<>> THEN <<>>
        ELSE IF HasWind(met)
        THEN [i \in DOMAIN last |->
                LET key == FloorMin(last[i].Time)
                    w == rows[Num(IdxMax(rows, key))]
                IN  [Time_key |-> key,
                     Time |-> last[i].Time,
                     temperature_c |-> last[i].temperature_c,
                     humidity_rh |-> last[i].humidity_rh,
                     windspeed_kmh |-> w.windspeed_kmh,
                     windheading |-> w.windheading]]
        ELSE [i \in DOMAIN last |->
                [Time_key |-> FloorMin(last[i].Time),
                 Time |-> last[i].Time,
                 temperature_c |-> last[i].temperature_c,
                 humidity_rh |-> last[i].humidity_rh,
                 windspeed_kmh |-> last[i].windspeed_kmh,
                 windheading |-> last[i].windheading]]

\* sum(min_count=1) of the values at the positions I: NA when all are NA.
RECURSIVE SumAt(_, _)
SumAt(col, I) ==
    IF I = {} THEN 0
    ELSE LET i == CHOOSE x \in I : TRUE
         IN  (IF IsNA(col[i]) THEN 0 ELSE Num(col[i])) + SumAt(col, I \ {i})

SumMinCount1(col, I) ==
    IF \A i \in I : IsNA(col[i]) THEN NA ELSE V(SumAt(col, I))

\* Lines 772-779: the rain of each minute summed.
AlignRain(rain2) ==
    LET keys == Ascending({FloorMin(rain2[i].Time) : i \in DOMAIN rain2})
        col == [i \in DOMAIN rain2 |-> rain2[i].rain_mm]
    IN  [n \in DOMAIN keys |->
            [Time_key |-> keys[n],
             rain_mm |-> SumMinCount1(col,
                            {i \in DOMAIN rain2 : FloorMin(rain2[i].Time) = keys[n]})]]

RowWithKey(rows, key) == rows[CHOOSE i \in DOMAIN rows : rows[i].Time_key = key]
HasKey(rows, key) == \E i \in DOMAIN rows : rows[i].Time_key = key

\* Variant: a left join on the meteorological stream (how="left").
MergeLeft(met, rain2) ==
    IF met # <<>>
    THEN [i \in DOMAIN met |->
            Reading(met[i].Time_key, met[i].temperature_c, met[i].humidity_rh,
                    met[i].windspeed_kmh, met[i].windheading,
                    IF HasKey(rain2, met[i].Time_key)
                    THEN RowWithKey(rain2, met[i].Time_key).rain_mm
                    ELSE NA)]
    ELSE [i \in DOMAIN rain2 |->
            Reading(rain2[i].Time_key, NA, NA, NA, NA, rain2[i].rain_mm)]

\* Lines 781-803: the outer join of the two aligned streams on Time_key, Time
\* set to Time_key, sorted by Time.
MergeStreams(met, rain2) ==
    IF met # <<>> /\ rain2 # <<>>
    THEN LET keys == Ascending({met[i].Time_key : i \in DOMAIN met}
                               \cup {rain2[i].Time_key : i \in DOMAIN rain2})
         IN  [n \in DOMAIN keys |->
                LET k == keys[n]
                    inMet == HasKey(met, k)
                    m == RowWithKey(met, k)
                IN  Reading(k,
                        IF inMet THEN m.temperature_c ELSE NA,
                        IF inMet THEN m.humidity_rh ELSE NA,
                        IF inMet THEN m.windspeed_kmh ELSE NA,
                        IF inMet THEN m.windheading ELSE NA,
                        IF HasKey(rain2, k) THEN RowWithKey(rain2, k).rain_mm
                        ELSE NA)]
    ELSE IF met # <<>>
    THEN [i \in DOMAIN met |->
            Reading(met[i].Time_key, met[i].temperature_c, met[i].humidity_rh,
                    met[i].windspeed_kmh, met[i].windheading, NA)]
    ELSE [i \in DOMAIN rain2 |->
            Reading(rain2[i].Time_key, NA, NA, NA, NA, rain2[i].rain_mm)]

\* master2["windheading"].ffill(): the last heading known at or before the row.
Ffill(rows) ==
    [i \in DOMAIN rows |->
        LET known == {j \in 1..i : ~IsNA(rows[j].windheading)}
        IN  [rows[i] EXCEPT !.windheading =
                IF known = {} THEN NA ELSE rows[Greatest(known)].windheading]]

\* Variant: the merge without drop_duplicates.
MergeWithoutDedup(master, merged) ==
    {Ffill(s) : s \in SortValues(master \o merged)}

\* Lines 808-817: the frames master2 may be after the merge.
MergeIntoMaster(master, merged) ==
    {Ffill(DropDuplicatesLast(s, Times(s))) : s \in SortValues(master \o merged)}

\* save_master / save_snow_master: sorted by Time (the times are distinct).
SaveSorted(rows) == <<SortedByTime(rows)>>

\* load_master / load_snow_master: the rows of the file, none when it is absent.
Load(file) == IF file = <<>> THEN <<>> ELSE file[1]

\* Lines 823-827: the period of the batch.
Bundle(merged) ==
    IF merged = <<>> THEN <<>>
    ELSE <<DayOf(merged[1].Time), DayOf(merged[Len(merged)].Time)>>

\* Variant: the plain name, taken or not.
TargetTaken(ark, bundle, stem) == <<bundle, stem, 1>>

\* Lines 832-836: the first free name, <bundle>__<stem>.csv (i = 1), then
\* <bundle>__<stem>(i).csv for i = 2, 3, ...
Target(ark, bundle, stem) ==
    LET free == {i \in 1..(Cardinality(DOMAIN ark) + 1) :
                    <<bundle, stem, i>> \notin DOMAIN ark}
    IN  <<bundle, stem, CHOOSE i \in free : \A j \in free : i <= j>>

\* Lines 830-837: every file moved, in the order of files.
RECURSIVE MoveFiles(_, _, _, _)
MoveFiles(names, imp, ark, bundle) ==
    IF names = <<>> THEN ark
    ELSE MoveFiles(Tail(names), imp,
                   (Target(ark, bundle, names[1]) :> imp[names[1]]) @@ ark,
                   bundle)

RECURSIVE MovedTo(_, _, _)
MovedTo(names, ark, bundle) ==
    IF names = <<>> THEN <<>>
    ELSE LET t == Target(ark, bundle, names[1])
         IN  <<[name |-> names[1], target |-> t]>>
                \o MovedTo(Tail(names), ark @@ (t :> <<>>), bundle)

-----------------------------------------------------------------------------
(* ingest_snow_file, generate_monthly_json, generate_snow_json *)

SnowRow(t, cm) == [Time |-> t, snow_cm |-> cm]

\* Lines 903-909: the rows with a date, the date at day resolution.
SnowDated(table) ==
    LET dated == RowsAt(table.rows, {i \in DOMAIN table.rows :
                                        ~IsNA(table.rows[i].Time)})
    IN  [i \in DOMAIN dated |->
            SnowRow(FloorDay(Num(dated[i].Time)), dated[i].snow_cm)]

\* Variant: the ledger is replaced by the rows of the file.
SnowReplace(master, dated) ==
    {LET valued == RowsAt(s, {i \in DOMAIN s : ~IsNA(s[i].snow_cm)})
     IN  DropDuplicatesLast(valued, Times(valued)) : s \in SortValues(dated)}

\* Lines 909-922: the ledgers the merge may leave, for a file with both
\* columns and at least one dated row.
SnowMerge(master, dated) ==
    UNION {LET valued == RowsAt(s, {i \in DOMAIN s : ~IsNA(s[i].snow_cm)})
               out == DropDuplicatesLast(valued, Times(valued))
           IN  {DropDuplicatesLast(m, Times(m)) : m \in SortValues(master \o out)}
           : s \in SortValues(dated)}

\* Variant: the extracts generated from the batch of the run alone.
BatchOnly(master, merged) == merged

\* The rows the monthly extracts are generated from (line 844: the whole
\* master, whatever the batch of this run was).
MonthlySource(master, merged) == master

\* Lines 856-863: one month as columns.
Extract(rows) ==
    [time |-> [i \in DOMAIN rows |-> rows[i].Time],
     temperature_c |-> [i \in DOMAIN rows |-> rows[i].temperature_c],
     humidity_rh |-> [i \in DOMAIN rows |-> rows[i].humidity_rh],
     windspeed_kmh |-> [i \in DOMAIN rows |-> rows[i].windspeed_kmh],
     windheading |-> [i \in DOMAIN rows |-> rows[i].windheading],
     rain_mm |-> [i \in DOMAIN rows |-> rows[i].rain_mm]]

MonthsOf(rows) == {MonthOf(rows[i].Time) : i \in DOMAIN rows}

\* Variant: each file holds the newest reading of its month only.
NewestOfMonth(rows) ==
    [m \in MonthsOf(rows) |->
        Extract(<<CHOOSE r \in {rows[i] : i \in DOMAIN rows} :
                     /\ MonthOf(r.Time) = m
                     /\ \A i \in DOMAIN rows :
                           MonthOf(rows[i].Time) = m => rows[i].Time <= r.Time>>)]

\* Lines 854-867: the files written, month -> extract.
MonthlyFiles(rows) ==
    LET sorted == SortedByTime(rows)
    IN  [m \in MonthsOf(rows) |->
            Extract(RowsAt(sorted, {i \in DOMAIN sorted :
                                      MonthOf(sorted[i].Time) = m}))]

\* Variant: the list in the order of the groupby, without the sort of
\* line 869.
MonthListAsGrouped(rows) ==
    LET labels == Ascending(MonthsOf(rows))
    IN  [i \in DOMAIN labels |-> [label |-> labels[i], file |-> labels[i]]]

\* Lines 867-870: the list returned, newest month first.
MonthList(rows) ==
    LET labels == Descending(MonthsOf(rows))
    IN  [i \in DOMAIN labels |-> [label |-> labels[i], file |-> labels[i]]]

\* Lines 927-941.
SnowExtract(rows) ==
    LET sorted == SortedByTime(rows)
    IN  [time |-> [i \in DOMAIN sorted |-> sorted[i].Time],
         snow_cm |-> [i \in DOMAIN sorted |-> sorted[i].snow_cm]]

-----------------------------------------------------------------------------
(* main(), one action per call *)

NoIngest ==
    [status |-> "none", met0 |-> <<>>, met |-> <<>>, rain2 |-> <<>>,
     merged |-> <<>>, moved |-> <<>>, imported_rows |-> 0, dedup_removed |-> 0,
     bundle |-> <<>>, error |-> "none"]

NoReplay == [phase |-> "none", master |-> <<>>]

Snapshot ==
    [weather_parquet |-> weather_parquet, data |-> data, manifest |-> manifest,
     no_csv |-> DOMAIN importer = {}, after_completed |-> clean,
     importer |-> importer, arkiv |-> arkiv, snow_parquet |-> snow_parquet,
     snow_json |-> snow_json, taken |-> TRUE]

NoSnapshot ==
    [weather_parquet |-> <<>>, data |-> <<>>, manifest |-> <<>>,
     no_csv |-> FALSE, after_completed |-> FALSE,
     importer |-> <<>>, arkiv |-> <<>>, snow_parquet |-> <<>>,
     snow_json |-> <<>>, taken |-> FALSE]

\* Variant: a file that does not parse is skipped.
SkipUnparsed(imp) == FALSE

ParseRaises(imp) == \E n \in DOMAIN imp : imp[n].kind = "error"

\* ingest_import_folder(), lines 720-840.  The run may stop (killed, or
\* shutil.move raising) after weather.parquet is written and stopAfter of the
\* files are moved; a run that is not interruptible moves them all.
Ingest(interruptible) ==
    /\ pc = "idle"
    /\ start' = Snapshot
    /\ clean' = FALSE
    /\ written' = IF DOMAIN importer = {} \/ ParseRaises(importer)
                     \/ WindLookupRaises(MetStream(Parts(importer, "met")))
                  THEN {} ELSE {"weather.parquet"}
    /\ UNCHANGED <<snow_parquet, sno_csv, data, snow_json, manifest, index_html,
                   months, drops, snow_latest, rainVars>>
    /\ LET master == Load(weather_parquet)
           files == SortedFiles(importer)
           met0 == MetStream(Parts(importer, "met"))
       IN  IF files = <<>>
           THEN /\ ingest' = [NoIngest EXCEPT !.status = "empty"]
                /\ pc' = "ingest_snow_file"
                /\ UNCHANGED <<importer, arkiv, weather_parquet, latest, replay>>
           ELSE IF ParseRaises(importer) \/ WindLookupRaises(met0)
           THEN /\ ingest' = IF ParseRaises(importer)
                           THEN [NoIngest EXCEPT !.status = "raised",
                                                 !.error = "ValueError"]
                           ELSE [NoIngest EXCEPT !.status = "raised",
                                                 !.error = "KeyError",
                                                 !.met0 = met0.rows]
                /\ pc' = "idle"
                /\ UNCHANGED <<importer, arkiv, weather_parquet, latest, replay>>
           ELSE LET met == AlignMet(met0)
                    rain2 == AlignRain(RainStream(Parts(importer, "rain")))
                    merged == MergeStreams(met, rain2)
                    bundle == Bundle(merged)
                IN  \E master2 \in MergeIntoMaster(master, merged),
                       stopAfter \in IF interruptible THEN 0..Len(files)
                                     ELSE {Len(files)} :
                      LET done == SubSeq(files, 1, stopAfter)
                          all == stopAfter = Len(files)
                      IN  /\ weather_parquet' = SaveSorted(master2)
                          /\ arkiv' = MoveFiles(done, importer, arkiv, bundle)
                          /\ importer' =
                               [n \in DOMAIN importer
                                        \ {done[i] : i \in DOMAIN done} |->
                                  importer[n]]
                          /\ ingest' =
                               [status |-> IF all THEN "ok" ELSE "stopped",
                                met0 |-> met0.rows, met |-> met,
                                rain2 |-> rain2, merged |-> merged,
                                moved |-> MovedTo(done, arkiv, bundle),
                                imported_rows |-> Len(merged),
                                dedup_removed |->
                                    Len(master) + Len(merged) - Len(master2),
                                bundle |-> bundle, error |-> "none"]
                          /\ latest' =
                               [t \in DOMAIN latest
                                        \cup {merged[i].Time : i \in DOMAIN merged} |->
                                  IF \E i \in DOMAIN merged : merged[i].Time = t
                                  THEN merged[CHOOSE i \in DOMAIN merged :
                                                 merged[i].Time = t]
                                  ELSE latest[t]]
                          /\ replay' = IF replay.phase = "moved" /\ all
                                       THEN [replay EXCEPT !.phase = "done"]
                                       ELSE NoReplay
                          /\ pc' = IF all THEN "ingest_snow_file" ELSE "idle"

\* A call that runs to its end.
IngestImportFolder == Ingest(FALSE)

\* Variant: the exception of ingest_snow_file leaves main().
AbortRun == "idle"

\* main(), lines 958-962: the exception is caught and the run goes on.
AfterSnowFailure == "generate_monthly_json"

\* Lines 900-901: a file without a date column or without a snow column.
SnowRaises(table) == ~(table.date_col /\ table.snow_col)

\* The value each date of the file has in its last row with a value.
LastInFile(table) ==
    LET dated == SnowDated(table)
        valued == RowsAt(dated, {i \in DOMAIN dated : ~IsNA(dated[i].snow_cm)})
    IN  [d \in {valued[i].Time : i \in DOMAIN valued} |->
            valued[Greatest({i \in DOMAIN valued : valued[i].Time = d})].snow_cm]

\* ingest_snow_file() inside main's try/except, lines 873-924 and 958-962.
IngestSnowFile ==
    /\ pc = "ingest_snow_file"
    /\ UNCHANGED <<importer, arkiv, weather_parquet, sno_csv, data, snow_json,
                   manifest, index_html, months, ingest, latest, replay, start,
                   clean, drops, rainVars>>
    /\ IF sno_csv = <<>>
       THEN /\ pc' = "generate_monthly_json"
            /\ UNCHANGED <<snow_parquet, written, snow_latest>>
       ELSE LET table == sno_csv[1]
                dated == SnowDated(table)
            IN  IF SnowRaises(table)
                THEN /\ pc' = AfterSnowFailure
                     /\ UNCHANGED <<snow_parquet, written, snow_latest>>
                ELSE IF dated = <<>>
                THEN /\ pc' = "generate_monthly_json"
                     /\ UNCHANGED <<snow_parquet, written, snow_latest>>
                ELSE /\ pc' = "generate_monthly_json"
                     /\ \E master2 \in SnowMerge(Load(snow_parquet), dated) :
                          snow_parquet' = SaveSorted(master2)
                     /\ written' = written \cup {"snow.parquet"}
                     /\ snow_latest' = LastInFile(table) @@ snow_latest

\* Variant: the manifest is written right after the monthly extracts.
SkipSnowJson == "write_manifest"

\* Lines 964-965: generate_snow_json() follows generate_monthly_json().
AfterMonthlyJson == "generate_snow_json"

\* generate_monthly_json(), lines 843-870.  The files are written month by
\* month, oldest first (groupby); an interruptible run may stop after any of
\* them.
GenerateMonthly(interruptible) ==
    /\ pc = "generate_monthly_json"
    /\ LET rows == MonthlySource(Load(weather_parquet), ingest.merged)
           labels == Ascending(MonthsOf(rows))
       IN  IF rows = <<>>
           THEN /\ months' = <<>>
                /\ pc' = AfterMonthlyJson
                /\ UNCHANGED <<data, written>>
           ELSE \E stopAfter \in IF interruptible THEN 1..Len(labels)
                                 ELSE {Len(labels)} :
                  LET done == {labels[i] : i \in 1..stopAfter}
                      all == stopAfter = Len(labels)
                  IN  /\ data' = [m \in done |-> MonthlyFiles(rows)[m]] @@ data
                      /\ months' = IF all THEN MonthList(rows) ELSE <<>>
                      /\ written' = written \cup {"months"}
                      /\ pc' = IF all THEN AfterMonthlyJson ELSE "idle"
    /\ UNCHANGED <<importer, arkiv, weather_parquet, snow_parquet, sno_csv,
                   snow_json, manifest, index_html, ingest, latest, snow_latest, replay,
                   start, clean, drops, rainVars>>

\* generate_snow_json(), lines 927-941.
GenerateSnowJson ==
    /\ pc = "generate_snow_json"
    /\ pc' = "write_manifest"
    /\ snow_json' = <<SnowExtract(Load(snow_parquet))>>
    /\ written' = written \cup {"snow.json"}
    /\ UNCHANGED <<importer, arkiv, weather_parquet, snow_parquet, sno_csv,
                   data, manifest, index_html, months, ingest, latest, snow_latest, replay,
                   start, clean, drops, rainVars>>

\* write_manifest(months), lines 944-946.
WriteManifest ==
    /\ pc = "write_manifest"
    /\ pc' = "write_index_html"
    /\ manifest' = <<[months |-> months, snow |-> "snow.json"]>>
    /\ written' = written \cup {"manifest.json"}
    /\ UNCHANGED <<importer, arkiv, weather_parquet, snow_parquet, sno_csv,
                   data, snow_json, index_html, months, ingest, latest, snow_latest, replay,
                   start, clean, drops, rainVars>>

\* write_index_html(), lines 949-950, and the end of main().
WriteIndexHtml ==
    /\ pc = "write_index_html"
    /\ pc' = "idle"
    /\ index_html' = TRUE
    /\ written' = written \cup {"index.html"}
    /\ clean' = TRUE
    /\ UNCHANGED <<importer, arkiv, weather_parquet, snow_parquet, sno_csv,
                   data, snow_json, manifest, months, ingest, latest, snow_latest, replay,
                   start, drops, rainVars>>

-----------------------------------------------------------------------------
(* The operator between two runs *)

MaxBatches == 2       \* batches of new files put into importer/

FileNames == {1, 2}

\* A CSV file is copied into importer/.
DropFile(f) ==
    /\ pc = "idle"
    /\ \E n \in FileNames \ DOMAIN importer :
         /\ \A k \in FileNames : k < n => k \in DOMAIN importer
         /\ importer' = importer @@ (n :> f)
    /\ IF DOMAIN importer = {}
       THEN drops < MaxBatches /\ drops' = drops + 1
       ELSE UNCHANGED drops
    /\ replay' = NoReplay
    /\ clean' = FALSE
    /\ start' = NoSnapshot
    /\ written' = {}
    /\ UNCHANGED <<arkiv, weather_parquet, snow_parquet, sno_csv, data,
                   snow_json, manifest, index_html, runVars, latest, snow_latest, rainVars>>

\* The files of the last ingest are moved back from arkiv/ into importer/,
\* unchanged and under the names they had.
MoveBack ==
    /\ pc = "idle"
    /\ DOMAIN importer = {}
    /\ ingest.status = "ok"
    /\ replay.phase = "none"
    /\ \A i \in DOMAIN ingest.moved : ingest.moved[i].target \in DOMAIN arkiv
    /\ importer' = [n \in {ingest.moved[i].name : i \in DOMAIN ingest.moved} |->
                      arkiv[ingest.moved[CHOOSE i \in DOMAIN ingest.moved :
                                             ingest.moved[i].name = n].target]]
    /\ arkiv' = [t \in DOMAIN arkiv
                         \ {ingest.moved[i].target : i \in DOMAIN ingest.moved} |->
                   arkiv[t]]
    /\ replay' = [phase |-> "moved", master |-> weather_parquet]
    /\ clean' = FALSE
    /\ start' = NoSnapshot
    /\ written' = {}
    /\ UNCHANGED <<weather_parquet, snow_parquet, sno_csv, data, snow_json,
                   manifest, index_html, runVars, latest, snow_latest, drops, rainVars>>

\* manuelt/sno.csv is written (legg_til_sno.py, or by hand).
EditSnow(table) ==
    /\ pc = "idle"
    /\ sno_csv # <<table>>
    /\ sno_csv' = <<table>>
    /\ clean' = FALSE
    /\ start' = NoSnapshot
    /\ written' = {}
    /\ UNCHANGED <<importer, arkiv, weather_parquet, snow_parquet, data,
                   snow_json, manifest, index_html, runVars, latest, snow_latest, replay,
                   drops, rainVars>>

\* Calls that run to their end.
GenerateMonthlyJson == GenerateMonthly(FALSE)

\* The run is stopped between two calls of main() (the process is killed, or
\* a write raises).
Stop ==
    /\ pc \notin {"idle"}
    /\ pc' = "idle"
    /\ months' = <<>>
    /\ UNCHANGED <<diskVars, ingest, histVars, rainVars>>

Main ==
    \/ IngestImportFolder
    \/ IngestSnowFile
    \/ GenerateMonthlyJson
    \/ GenerateSnowJson
    \/ WriteManifest
    \/ WriteIndexHtml

-----------------------------------------------------------------------------
(* The files of the runs *)

MetFile(cols, rows) == [kind |-> "met", df |-> [cols |-> cols, rows |-> rows]]
RainCols == {"rain_rate_mmh", "rain_raw"}
RainFile(rows) == [kind |-> "rain", df |-> [cols |-> RainCols, rows |-> rows]]
ErrorFile == [kind |-> "error", df |-> [cols |-> {}, rows |-> <<>>]]

\* Several runs: one sample per file, in January and in February.
JanNoon == At(1, 1, 12, 0, 0)
FebNoon == At(2, 1, 12, 0, 0)

SmallMetRows ==
    {MetRow(t + 5, V(1), V(50), V(3), V(90)) : t \in {JanNoon, FebNoon}}
    \cup {MetRow(t + 5, V(2), V(60), V(7), NA) : t \in {JanNoon, FebNoon}}

SmallFiles ==
    {MetFile(MetCols, <<r>>) : r \in SmallMetRows}
    \cup {RainFile(<<RainRow(t + 10, NA, V(Mm(1)))>>) : t \in {JanNoon, FebNoon}}

SnowTables ==
    {[date_col |-> TRUE, snow_col |-> TRUE,
      rows |-> <<SnowRow(V(At(1, 5, 0, 0, 0)), V(45))>>]}

\* One run: up to two samples per file, several in one minute.
MetTimes == {JanNoon + 5, JanNoon + 40, JanNoon + 65}
MetSamples ==
    {<<V(1), V(50), V(3), V(90)>>,
     <<V(2), V(60), V(7), V(180)>>,
     <<V(3), NA, V(7), NA>>,
     <<NA, V(70), NA, V(45)>>}

MetRowAt(t, x) == MetRow(t, x[1], x[2], x[3], x[4])

MetTables ==
    {<<MetRowAt(t, x)>> : t \in MetTimes, x \in MetSamples}
    \cup {<<MetRowAt(t, x), MetRowAt(u, y)>> :
            t \in MetTimes, u \in MetTimes, x \in MetSamples, y \in MetSamples}

TimeOrdered(rows) == \A i \in 1..(Len(rows) - 1) : rows[i].Time < rows[i + 1].Time

RainTimes == {JanNoon + 10, JanNoon + 50, JanNoon + 130}
RainSamples == {<<NA, NA>>, <<NA, V(Mm(1))>>, <<NA, V(Mm(3))>>, <<V(6), V(Mm(1))>>}

RainTables ==
    {<<RainRow(t, x[1], x[2])>> : t \in RainTimes, x \in RainSamples}
    \cup {<<RainRow(t, x[1], x[2]), RainRow(u, y[1], y[2])>> :
            t \in RainTimes, u \in RainTimes, x \in RainSamples, y \in RainSamples}

RichFiles ==
    {MetFile(MetCols, rows) : rows \in {r \in MetTables : TimeOrdered(r)}}
    \cup {MetFile(MetCols \ {"windheading"}, rows) :
            rows \in {r \in MetTables :
                        TimeOrdered(r) /\ \A i \in DOMAIN r : IsNA(r[i].windheading)}}
    \cup {RainFile(rows) : rows \in {r \in RainTables : TimeOrdered(r)}}
    \cup {ErrorFile}

-----------------------------------------------------------------------------
(* Specifications *)

RainIdle ==
    /\ rain_df = [hasRate |-> FALSE, rows |-> <<>>]
    /\ rain_mm = <<>>
    /\ rpc = "off"

\* The state before the first run: empty directories.
InitPipe ==
    /\ importer = <<>>
    /\ arkiv = <<>>
    /\ weather_parquet = <<>>
    /\ snow_parquet = <<>>
    /\ data = <<>>
    /\ snow_json = <<>>
    /\ manifest = <<>>
    /\ index_html = FALSE
    /\ pc = "idle"
    /\ months = <<>>
    /\ ingest = NoIngest
    /\ latest = <<>>
    /\ snow_latest = <<>>
    /\ replay = NoReplay
    /\ start = NoSnapshot
    /\ clean = FALSE
    /\ written = {}

\* Several runs.  The station gives one file for the rain and one for the
\* rest per period (lines 8-9): a batch is one of them, or both.  The manual
\* snow file is there from the start, or never.
Init ==
    /\ InitPipe
    /\ sno_csv \in {<<>>} \cup {<<t>> : t \in SnowTables}
    /\ drops = 0
    /\ RainIdle

DropStationFile ==
    \E f \in SmallFiles :
        /\ DOMAIN importer # {} => (importer[1].kind = "met" /\ f.kind = "rain")
        /\ DropFile(f)

Next ==
    \/ Main
    \/ DropStationFile
    \/ MoveBack

Spec == Init /\ [][Next]_vars

\* One call of ingest_import_folder() on one batch of files.
InitBatch == InitPipe /\ sno_csv = <<>> /\ drops = MaxBatches - 1 /\ RainIdle

NextBatch ==
    \/ IngestImportFolder
    \/ \E f \in RichFiles : DropFile(f)

SpecBatch == InitBatch /\ [][NextBatch]_vars

\* Several runs that may be stopped after any write, over files some of which
\* do not parse.
IngestOrStop == Ingest(TRUE)
GenerateMonthlyOrStop == GenerateMonthly(TRUE)

OpsFiles ==
    {MetFile(MetCols, <<MetRow(JanNoon + 5, V(1), V(50), V(3), V(90))>>),
     MetFile(MetCols, <<MetRow(FebNoon + 5, V(2), V(60), V(7), NA)>>),
     ErrorFile}

\* New files come when the last run was not stopped half way.
DropAnyFile ==
    /\ ingest.status # "stopped"
    /\ \E f \in OpsFiles : DropFile(f)

NextOps ==
    \/ IngestOrStop
    \/ IngestSnowFile
    \/ GenerateMonthlyOrStop
    \/ GenerateSnowJson
    \/ WriteManifest
    \/ WriteIndexHtml
    \/ Stop
    \/ DropAnyFile

InitOps ==
    /\ InitPipe
    /\ sno_csv \in {<<t>> : t \in SnowTables}
    /\ drops = 0
    /\ RainIdle

SpecOps == InitOps /\ [][NextOps]_vars

\* Several runs between which manuelt/sno.csv is rewritten: a date, the date
\* twice, the date replaced by another, a file without the snow column, and
\* the date with a last row whose value does not parse.
SnowDay == At(1, 5, 0, 0, 0)

SnowFile(rows) == [date_col |-> TRUE, snow_col |-> TRUE, rows |-> rows]

SnowEdits ==
    {SnowFile(<<SnowRow(V(SnowDay), V(45))>>),
     SnowFile(<<SnowRow(V(SnowDay), V(45)), SnowRow(V(SnowDay + SecondsPerHour), V(50))>>),
     SnowFile(<<SnowRow(V(SnowDay + SecondsPerDay), V(30))>>),
     SnowFile(<<SnowRow(V(SnowDay), V(50)), SnowRow(V(SnowDay), NA)>>),
     [date_col |-> TRUE, snow_col |-> FALSE,
      rows |-> <<SnowRow(V(SnowDay), NA)>>]}

SnowRunFiles ==
    {MetFile(MetCols, <<MetRow(JanNoon + 5, V(1), V(50), V(3), V(90))>>),
     MetFile(MetCols, <<MetRow(JanNoon + 5, V(2), V(60), V(7), NA),
                        MetRow(JanNoon + 65, V(2), V(60), V(7), NA)>>),
     ErrorFile}

EditSnowFile == \E t \in SnowEdits : EditSnow(t)

DropSnowRunFile == \E f \in SnowRunFiles : DropFile(f)

NextSnow ==
    \/ Main
    \/ EditSnowFile
    \/ DropSnowRunFile

InitSnow == InitPipe /\ sno_csv = <<>> /\ drops = 0 /\ RainIdle

SpecSnow == InitSnow /\ [][NextSnow]_vars

\* Several runs over files of three months: a file per month, a file that
\* runs over the end of January, and the rain of March.
MonthNoon(m) == At(m, 1, 12, 0, 0)

MonthFiles ==
    {MetFile(MetCols, <<MetRow(MonthNoon(m) + 5, V(m), V(50), V(3), V(90))>>) :
        m \in 1..3}
    \cup {MetFile(MetCols, <<MetRow(At(1, 31, 23, 59, 30), V(4), V(60), V(7), NA),
                            MetRow(At(2, 1, 0, 0, 10), V(5), V(60), V(7), NA)>>),
          RainFile(<<RainRow(MonthNoon(3) + 70, NA, V(Mm(1)))>>)}

DropMonthFile == \E f \in MonthFiles : DropFile(f)

NextMonths ==
    \/ Main
    \/ DropMonthFile

InitMonths == InitPipe /\ sno_csv = <<>> /\ drops = 0 /\ RainIdle

SpecMonths == InitMonths /\ [][NextMonths]_vars

-----------------------------------------------------------------------------
(* parse_station_csv() on the text of a file *)

\* A column name is the sequence of its characters; a cell is what its text
\* stands for: a date with a time of day, a date, a time of day, a number.
Dt(t) == [kind |-> "datetime", v |-> t]
Day(d) == [kind |-> "date", v |-> d]
Clock(s) == [kind |-> "clock", v |-> s]
Number(x) == [kind |-> "number", v |-> x]

RawFile(header, rows) == [header |-> header, rows |-> rows]

\* str.lower() on a character.
LowerTable ==
    ("A" :> "a") @@ ("B" :> "b") @@ ("C" :> "c") @@ ("D" :> "d") @@ ("E" :> "e") @@ ("F" :> "f")
        @@ ("G" :> "g") @@ ("H" :> "h") @@ ("I" :> "i") @@ ("J" :> "j") @@ ("K" :> "k") @@ ("L" :> "l")
        @@ ("M" :> "m") @@ ("N" :> "n") @@ ("O" :> "o") @@ ("P" :> "p") @@ ("Q" :> "q") @@ ("R" :> "r")
        @@ ("S" :> "s") @@ ("T" :> "t") @@ ("U" :> "u") @@ ("V" :> "v") @@ ("W" :> "w") @@ ("X" :> "x")
        @@ ("Y" :> "y") @@ ("Z" :> "z")

Lower(c) == IF c \in DOMAIN LowerTable THEN LowerTable[c] ELSE c

LowerName(name) == [i \in DOMAIN name |-> Lower(name[i])]

\* kw in cl (line 596).
IsInfix(kw, cl) ==
    \E i \in 0..(Len(cl) - Len(kw)) : SubSeq(cl, i + 1, i + Len(kw)) = kw

\* find_col(), lines 592-598: the first column whose name in lower case
\* holds one of the keywords, 0 for None.
FindCol(cols, keywords) ==
    LET hits == {i \in DOMAIN cols :
                    \E k \in DOMAIN keywords :
                        IsInfix(keywords[k], LowerName(cols[i]))}
    IN  IF hits = {} THEN 0 ELSE CHOOSE i \in hits : \A j \in hits : i <= j

NameTime == <<"T", "i", "m", "e">>

\* "Time" in df.columns (line 604): the name as it is written.
TimeColumn(header) ==
    LET hits == {i \in DOMAIN header : header[i] = NameTime}
    IN  IF hits = {} THEN 0 ELSE CHOOSE i \in hits : \A j \in hits : i <= j

\* The keywords of lines 606-626.
Keywords ==
    [date |->
         <<<<"d", "a", "t", "e">>>>,
     time |->
         <<<<"t", "i", "m", "e">>>>,
     rain_rate |->
         <<<<"r", "a", "i", "n", " ", "r", "a", "t", "e">>,
           <<"m", "m", "/", "h">>,
           <<"m", "m", " ", "p", "e", "r", " ", "h">>,
           <<"m", "m", " ", "p", "r", " ", "h">>>>,
     rain |->
         <<<<"r", "a", "i", "n">>,
           <<"p", "r", "e", "c", "i", "p">>,
           <<"n", "e", "d", "b", "ø", "r">>,
           <<"n", "e", "d", "b", "o", "r">>>>,
     temp |->
         <<<<"t", "e", "m", "p", "e", "r", "a", "t", "u", "r", "e">>, <<"t", "e", "m", "p">>>>,
     hum |->
         <<<<"h", "u", "m", "i", "d", "i", "t", "y">>, <<"r", "h", "%">>, <<"r", "h">>>>,
     wind |->
         <<<<"w", "i", "n", "d", "s", "p", "e", "e", "d">>,
           <<"w", "i", "n", "d", " ", "s", "p", "e", "e", "d">>,
           <<"k", "m", "/", "h">>,
           <<"k", "m", "h">>>>,
     heading |->
         <<<<"w", "i", "n", "d", "h", "e", "a", "d", "i", "n", "g">>,
           <<"w", "i", "n", "d", " ", "h", "e", "a", "d", "i", "n", "g">>,
           <<"w", "i", "n", "d", "d", "i", "r">>,
           <<"d", "i", "r", "e", "c", "t", "i", "o", "n">>,
           <<"r", "e", "t", "n", "i", "n", "g">>>>]

\* Line 611: neither a column "Time" nor the two columns of the fallback.
MissingTimeColumn(header) ==
    /\ TimeColumn(header) = 0
    /\ \/ FindCol(header, Keywords.date) = 0
       \/ FindCol(header, Keywords.time) = 0

\* The day of the run: pd.to_datetime gives a time of day without a date the
\* date of today.
RunDay == At(6, 1, 0, 0, 0)

\* pd.to_datetime(df["Time"], errors="coerce"), line 613.
ToDatetime(cell) ==
    CASE cell.kind = "datetime" -> V(cell.v)
      [] cell.kind = "date" -> V(cell.v)
      [] cell.kind = "clock" -> V(RunDay + cell.v)
      [] OTHER -> NA

\* pd.to_datetime(date + " " + time, errors="coerce"), line 609.
ToDatetimePair(date, time) ==
    IF date.kind = "date" /\ time.kind = "clock" THEN V(date.v + time.v) ELSE NA

\* pd.to_numeric(..., errors="coerce").
ToNumeric(cell) == IF cell.kind = "number" THEN V(cell.v) ELSE NA

\* Lines 603-613: the Time of a row.
TimeOfRow(header, row) ==
    IF TimeColumn(header) # 0
    THEN ToDatetime(row[TimeColumn(header)])
    ELSE ToDatetimePair(row[FindCol(header, Keywords.date)],
                        row[FindCol(header, Keywords.time)])

\* Line 616: the columns, with the Time the fallback has added.
ColumnsWithTime(header) ==
    IF TimeColumn(header) # 0 THEN header ELSE header \o <<NameTime>>

Field(row, col) == IF col = 0 \/ col > Len(row) THEN NA ELSE ToNumeric(row[col])

\* parse_station_csv(), lines 601-664, as the files DropFile takes: the
\* frames the sort of line 615 may give, or the file that does not parse.
\* The headings of the files are degrees (line 651).
ParseStationCsv(raw) ==
    IF MissingTimeColumn(raw.header)
    THEN {[kind |-> "error", df |-> [cols |-> {}, rows |-> <<>>], raw |-> raw]}
    ELSE LET cols == ColumnsWithTime(raw.header)
             timed == RowsAt(raw.rows,
                             {i \in DOMAIN raw.rows :
                                 ~IsNA(TimeOfRow(raw.header, raw.rows[i]))})
             rate == FindCol(cols, Keywords.rain_rate)
             rain == FindCol(cols, Keywords.rain)
             temp == FindCol(cols, Keywords.temp)
             hum == FindCol(cols, Keywords.hum)
             wind == FindCol(cols, Keywords.wind)
             head == FindCol(cols, Keywords.heading)
         IN  IF rain # 0 \/ rate # 0
             THEN {[kind |-> "rain",
                    df |-> [cols |-> {c \in {"rain_rate_mmh"} : rate # 0}
                                     \cup {c \in {"rain_raw"} : rain # 0},
                            rows |-> s],
                    raw |-> raw] :
                   s \in SortValues(
                       [i \in DOMAIN timed |->
                           RainRow(Num(TimeOfRow(raw.header, timed[i])),
                                   Field(timed[i], rate),
                                   Field(timed[i], rain))])}
             ELSE {[kind |-> "met",
                    df |-> [cols |-> {c \in {"temperature_c"} : temp # 0}
                                     \cup {c \in {"humidity_rh"} : hum # 0}
                                     \cup {c \in {"windspeed_kmh"} : wind # 0}
                                     \cup {c \in {"windheading"} : head # 0},
                            rows |-> s],
                    raw |-> raw] :
                   s \in SortValues(
                       [i \in DOMAIN timed |->
                           MetRow(Num(TimeOfRow(raw.header, timed[i])),
                                  Field(timed[i], temp), Field(timed[i], hum),
                                  Field(timed[i], wind), Field(timed[i], head))])}

\* One call of ingest_import_folder() on files given as text: the column of
\* the time is named Time, time or TIME, or there are a date and a time of
\* day, or a Timestamp, or no time at all.
Names ==
    [Time |-> <<"T", "i", "m", "e">>,
     time |-> <<"t", "i", "m", "e">>,
     TIME |-> <<"T", "I", "M", "E">>,
     Date |-> <<"D", "a", "t", "e">>,
     date |-> <<"d", "a", "t", "e">>,
     Timestamp |-> <<"T", "i", "m", "e", "s", "t", "a", "m", "p">>,
     Temperature |-> <<"T", "e", "m", "p", "e", "r", "a", "t", "u", "r", "e">>,
     Humidity |-> <<"H", "u", "m", "i", "d", "i", "t", "y">>,
     WindSpeed |-> <<"W", "i", "n", "d", "S", "p", "e", "e", "d">>,
     WindHeading |-> <<"W", "i", "n", "d", "H", "e", "a", "d", "i", "n", "g">>,
     Rain |-> <<"R", "a", "i", "n">>]

MetNames == <<Names.Temperature, Names.Humidity, Names.WindSpeed, Names.WindHeading>>
MetCells(x) == <<Number(x), Number(50), Number(3), Number(90)>>

RawFiles ==
    {RawFile(<<name>> \o MetNames, <<<<Dt(JanNoon + 5)>> \o MetCells(x)>>) :
        name \in {Names.Time, Names.time, Names.TIME, Names.Timestamp}, x \in {1, 2}}
    \cup {RawFile(<<date, time>> \o MetNames,
                  <<<<Day(At(1, 2, 0, 0, 0)), Clock(12 * SecondsPerHour + 5)>>
                        \o MetCells(1)>>) :
             date \in {Names.Date, Names.date}, time \in {Names.Time, Names.time}}
    \cup {RawFile(MetNames, <<MetCells(1)>>),
          RawFile(<<Names.Time, Names.Rain>>, <<<<Dt(JanNoon + 10), Number(Mm(1))>>>>),
          RawFile(<<Names.time, Names.Rain>>, <<<<Dt(JanNoon + 10), Number(Mm(1))>>>>)}

DropRawFile == \E raw \in RawFiles : \E f \in ParseStationCsv(raw) : DropFile(f)

NextParse ==
    \/ IngestImportFolder
    \/ DropRawFile

InitParse == InitPipe /\ sno_csv = <<>> /\ drops = MaxBatches - 1 /\ RainIdle

SpecParse == InitParse /\ [][NextParse]_vars

-----------------------------------------------------------------------------
(* The rain normaliser on its own: tables written row by row, then         *)
(* normalised.                                                             *)

RawTable(vals) ==
    [hasRate |-> FALSE,
     rows |-> [i \in DOMAIN vals |->
                 RainRow((i - 1) * SampleSeconds, NA, V(Mm(vals[i])))]]

\* The tables of the documented examples: one counter reset, and a rate of
\* 0 then 4 mm/h half an hour apart.
ResetExample == RawTable(<<10, 12, 3, 7>>)
RateExample ==
    [hasRate |-> TRUE,
     rows |-> <<RainRow(0, V(0), NA), RainRow(1800, V(4), NA)>>]

\* A counter that starts above zero and never falls.
RisingCounter == RawTable(<<10, 12, 15>>)

EmptyTables == {[hasRate |-> h, rows |-> <<>>] : h \in BOOLEAN}

InitRain ==
    /\ rain_df \in EmptyTables \cup {ResetExample, RateExample, RisingCounter}
    /\ rain_mm = <<>>
    /\ rpc = "build"
    /\ InitPipe
    /\ sno_csv = <<>>
    /\ drops = 0

NextTime(rows, gap) == IF rows = <<>> THEN 0 ELSE rows[Len(rows)].Time + gap

AppendRateRow ==
    /\ rpc = "build"
    /\ rain_df.hasRate
    /\ Len(rain_df.rows) < MaxRateRows
    /\ \E gap \in Gaps, rate \in RateVals, raw \in RateRawVals :
         rain_df' = [rain_df EXCEPT !.rows =
                        Append(@, RainRow(NextTime(@, gap), rate, raw))]
    /\ UNCHANGED <<rain_mm, rpc, pipeVars>>

AppendRawRow ==
    /\ rpc = "build"
    /\ ~rain_df.hasRate
    /\ Len(rain_df.rows) < MaxRawRows
    /\ \E raw \in RawVals :
         /\ IsNA(raw) =>
              Cardinality({i \in DOMAIN rain_df.rows :
                             IsNA(rain_df.rows[i].rain_raw)}) < MaxMissing
         /\ rain_df' = [rain_df EXCEPT !.rows =
                          Append(@, RainRow(NextTime(@, SampleSeconds), NA, raw))]
    /\ UNCHANGED <<rain_mm, rpc, pipeVars>>

Normalize ==
    /\ rpc = "build"
    /\ rain_mm' = RainToIntervalMm(rain_df.rows)
    /\ rpc' = "done"
    /\ UNCHANGED <<rain_df, pipeVars>>

NextRain == AppendRateRow \/ AppendRawRow \/ Normalize

SpecRain == InitRain /\ [][NextRain]_vars

-----------------------------------------------------------------------------
(* Properties of rain_to_interval_mm (under SpecRain) *)

RainDone == rpc = "done"
Rows == rain_df.rows
RawCol == [i \in DOMAIN Rows |-> Rows[i].rain_raw]
NoRateValue == \A i \in DOMAIN Rows : IsNA(Rows[i].rain_rate_mmh)
SomeRawValue == \E i \in DOMAIN Rows : ~IsNA(Rows[i].rain_raw)
RawMode == RainDone /\ NoRateValue /\ SomeRawValue

\* The rows whose difference to the previous row is defined.
DefinedDiffs == {i \in DOMAIN Rows : i > 1 /\ ~IsNA(RawCol[i]) /\ ~IsNA(RawCol[i - 1])}
NegativeDiffs == {i \in DefinedDiffs : Num(RawCol[i]) < Num(RawCol[i - 1])}

\* max(0, difference to the previous row), 0 where the difference is undefined.
CounterIntervals ==
    [i \in DOMAIN Rows |->
        IF i \in DefinedDiffs /\ i \notin NegativeDiffs
        THEN V(Num(RawCol[i]) - Num(RawCol[i - 1]))
        ELSE V(0)]

\* C5, as stated: the raw counter [10, 12, 3, 7] without rate values gives the
\* intervals [0, 2, 0, 4].
C5_ResetClamped ==
    (RainDone /\ rain_df = ResetExample)
        => rain_mm = <<V(Mm(0)), V(Mm(2)), V(Mm(0)), V(Mm(4))>>

\* C5, amended: the raw counter [10, 12, 3, 7] without rate values is returned
\* unchanged, as [10, 12, 3, 7]: with one negative difference in four rows the
\* column is not taken for a cumulative counter.
C5_ResetPassedThrough ==
    (RainDone /\ rain_df = ResetExample)
        => rain_mm = <<V(Mm(10)), V(Mm(12)), V(Mm(3)), V(Mm(7))>>

C5_Witness == RainDone /\ rain_df = ResetExample /\ Len(rain_mm) = 4

\* C6, as stated: without a rate value and with a raw value, the result is the
\* counter intervals exactly when at least 90% of the defined differences are
\* non-negative, and the raw column otherwise.
C6_RatioOfDefinedDiffs ==
    RawMode =>
        IF 100 * Cardinality(DefinedDiffs \ NegativeDiffs)
              >= 90 * Cardinality(DefinedDiffs)
        THEN rain_mm = CounterIntervals
        ELSE rain_mm = RawCol

\* C6, amended: without a rate value and with a raw value, the result is the
\* counter intervals (max(0, difference), 0 where the difference is undefined)
\* exactly when the rows with a negative difference are strictly fewer than
\* 10% of all rows, the first row and the rows with an undefined difference
\* counting as non-negative; otherwise it is the raw column unchanged.  A
\* ratio of exactly 90% returns the raw column.
C6_RatioOfAllRows ==
    RawMode =>
        IF 100 * Cardinality(NegativeDiffs) < 10 * Len(Rows)
        THEN rain_mm = CounterIntervals
        ELSE rain_mm = RawCol

\* A table of 11 rows with a missing value and one reset, taken for a counter.
C6_Witness ==
    /\ RawMode
    /\ Len(Rows) = 11
    /\ Cardinality(NegativeDiffs) = 1
    /\ \E i \in DOMAIN Rows : IsNA(RawCol[i])
    /\ rain_mm = CounterIntervals
    /\ rain_mm # RawCol

\* C7: for a non-decreasing raw counter of length >= 1 without a missing value
\* and without a rate value, the intervals sum to last - first.
C7_RainConservation ==
    (/\ RainDone
     /\ NoRateValue
     /\ Len(Rows) >= 1
     /\ \A i \in DOMAIN Rows : ~IsNA(RawCol[i])
     /\ NegativeDiffs = {})
        => /\ \A i \in DOMAIN rain_mm : ~IsNA(rain_mm[i])
           /\ SeqSum([i \in DOMAIN rain_mm |-> Num(rain_mm[i])])
                = Num(RawCol[Len(Rows)]) - Num(RawCol[1])

C7_Witness ==
    /\ RainDone
    /\ NoRateValue
    /\ Len(Rows) >= 3
    /\ \A i \in DOMAIN Rows : ~IsNA(RawCol[i])
    /\ NegativeDiffs = {}
    /\ Num(RawCol[1]) > 0
    /\ Num(RawCol[Len(Rows)]) > Num(RawCol[1])

\* C8: with a rate value present, every row's result is rate x hours since the
\* previous row, 0 in the first row, a missing rate counting as 0 and a
\* negative product replaced by 0, whatever the raw column holds; 0 mm/h then
\* 4 mm/h half an hour later give 2.0 mm.
C8_RateTimesHours ==
    (RainDone /\ ~NoRateValue) =>
        /\ Len(rain_mm) = Len(Rows)
        /\ \A i \in DOMAIN Rows :
             LET rate == IF IsNA(Rows[i].rain_rate_mmh) THEN 0
                         ELSE Num(Rows[i].rain_rate_mmh)
                 secs == IF i = 1 THEN 0 ELSE Rows[i].Time - Rows[i - 1].Time
             IN  /\ ~IsNA(rain_mm[i])
                 /\ Num(rain_mm[i]) >= 0
                 /\ Num(rain_mm[i]) * SecondsPerHour
                      = (IF rate < 0 THEN 0 ELSE rate * secs) * UnitsPerMm
        /\ rain_df = RateExample => rain_mm[2] = V(Mm(2))

C8_Witness ==
    /\ RainDone
    /\ rain_df = RateExample
    /\ rain_mm = <<V(0), V(Mm(2))>>

-----------------------------------------------------------------------------
(* Properties of the merge into the Archive (under Spec) *)

Archive == Load(weather_parquet)

\* C1: every Reading of the persisted Archive is the Reading of its timestamp
\* in the most recently merged batch that held the timestamp, never an older
\* one.  Stated here for time, temperature, humidity, wind speed and rain, and
\* for the wind heading where that batch gave one (the claim asks the same of
\* a heading the batch left missing, which the forward fill overwrites).
C1_NewestBatchWins ==
    \A i \in DOMAIN Archive :
        LET r == Archive[i]
        IN  /\ r.Time \in DOMAIN latest
            /\ r.temperature_c = latest[r.Time].temperature_c
            /\ r.humidity_rh = latest[r.Time].humidity_rh
            /\ r.windspeed_kmh = latest[r.Time].windspeed_kmh
            /\ r.rain_mm = latest[r.Time].rain_mm
            /\ (~IsNA(latest[r.Time].windheading)
                  => r.windheading = latest[r.Time].windheading)

\* C2: in every persisted Archive the times are strictly ascending: sorted,
\* and no two entries share a time.
C2_ArchiveSortedUnique ==
    \A i \in 1..(Len(Archive) - 1) : Archive[i].Time < Archive[i + 1].Time

\* A merge that removed a duplicate and left more than one entry.
C2_Witness ==
    /\ ingest.status = "ok"
    /\ ingest.dedup_removed > 0
    /\ Len(Archive) >= 2

\* C3: after the same batch has been ingested a second time, the persisted
\* Archive is the one the first ingest of that batch left, in every field.
C3_ReingestIdempotent ==
    replay.phase = "done" => weather_parquet = replay.master

\* C4: a complete run that started right after a completed run, with no .csv
\* in importer/ and the snow file as it was, has not written weather.parquet
\* and leaves the Archive, the monthly extracts and the manifest as they were.
C4_EmptyRerunChangesNothing ==
    /\ (pc # "idle" /\ start.no_csv) => weather_parquet = start.weather_parquet
    /\ (pc = "idle" /\ clean /\ start.no_csv /\ start.after_completed)
         => /\ weather_parquet = start.weather_parquet
            /\ "weather.parquet" \notin written
            /\ data = start.data
            /\ manifest = start.manifest

\* Such a run over an Archive of two months, with a snow file, that rewrote
\* the extracts and the manifest.
C4_Witness ==
    /\ pc = "idle"
    /\ clean
    /\ start.no_csv
    /\ start.after_completed
    /\ sno_csv # <<>>
    /\ {"months", "manifest.json"} \subseteq written
    /\ manifest # <<>>
    /\ Len(manifest[1].months) = 2
    /\ DOMAIN data = {1, 2}

-----------------------------------------------------------------------------
(* Properties of the batch (under SpecBatch) *)

MetKeys == {ingest.met[n].Time_key : n \in DOMAIN ingest.met}
RainKeys == {ingest.rain2[n].Time_key : n \in DOMAIN ingest.rain2}

\* The rows of the meteorological stream (as line 753 has it) in minute k.
MinuteOf(k) == {i \in DOMAIN ingest.met0 : FloorMin(ingest.met0[i].Time) = k}

\* Exactly one row for every minute of the meteorological stream, keyed by
\* the minute; its temperature and humidity are those of the latest row of
\* the minute; its wind speed is the greatest wind speed of the minute and its
\* heading the heading of a row with that speed (a minute without any wind
\* speed has none).
Collapsed ==
    /\ MetKeys = {FloorMin(ingest.met0[i].Time) : i \in DOMAIN ingest.met0}
    /\ Len(ingest.met) = Cardinality(MetKeys)
    /\ \A n \in DOMAIN ingest.met :
         LET row == ingest.met[n]
             G == MinuteOf(row.Time_key)
             windy == {i \in G : ~IsNA(ingest.met0[i].windspeed_kmh)}
             newest == CHOOSE i \in G :
                          \A j \in G : ingest.met0[j].Time <= ingest.met0[i].Time
         IN  /\ row.temperature_c = ingest.met0[newest].temperature_c
             /\ row.humidity_rh = ingest.met0[newest].humidity_rh
             /\ IF windy = {} THEN IsNA(row.windspeed_kmh)
                ELSE \E i \in windy :
                       /\ \A j \in windy :
                            Num(ingest.met0[j].windspeed_kmh)
                                <= Num(ingest.met0[i].windspeed_kmh)
                       /\ row.windspeed_kmh = ingest.met0[i].windspeed_kmh
                       /\ row.windheading = ingest.met0[i].windheading

\* C9: whenever ingest_import_folder has run on files that all parse, the rows
\* of the meteorological stream that floor to one minute have become exactly
\* one row, with the greatest wind speed of the minute and its heading, and
\* the temperature and humidity of the latest row of the minute.
C9_EveryMinuteCollapses ==
    (ingest.status \in {"ok", "raised"} /\ ingest.error # "ValueError")
        => (ingest.status = "ok" /\ Collapsed)

\* C9, of the ingests that complete: their minutes collapse as stated.
C9_CompletedIngestCollapses == ingest.status = "ok" => Collapsed

\* Rows at 12:00:05 with speed 3 and at 12:00:40 with speed 7: one row, keyed
\* 12:00:00, with speed 7 and the heading of the speed-7 row.
C9_Witness ==
    /\ ingest.status = "ok"
    /\ ingest.met0 = <<MetRow(JanNoon + 5, V(1), V(50), V(3), V(90)),
                       MetRow(JanNoon + 40, V(2), V(60), V(7), V(180))>>
    /\ Len(ingest.met) = 1
    /\ ingest.met[1].Time_key = JanNoon
    /\ ingest.met[1].windspeed_kmh = V(7)
    /\ ingest.met[1].windheading = V(180)

\* C10: the batch holds exactly one Reading for every minute of the aligned
\* meteorological stream or of the aligned rain stream, and no other; the
\* fields of a stream that lacks the minute are missing, the others are the
\* stream's.
C10_OuterJoin ==
    ingest.status = "ok" =>
        /\ {ingest.merged[i].Time : i \in DOMAIN ingest.merged} = MetKeys \cup RainKeys
        /\ Len(ingest.merged) = Cardinality(MetKeys \cup RainKeys)
        /\ \A i \in DOMAIN ingest.merged :
             LET r == ingest.merged[i]
             IN  /\ IF r.Time \in MetKeys
                    THEN LET m == RowWithKey(ingest.met, r.Time)
                         IN  /\ r.temperature_c = m.temperature_c
                             /\ r.humidity_rh = m.humidity_rh
                             /\ r.windspeed_kmh = m.windspeed_kmh
                             /\ r.windheading = m.windheading
                    ELSE /\ IsNA(r.temperature_c)
                         /\ IsNA(r.humidity_rh)
                         /\ IsNA(r.windspeed_kmh)
                         /\ IsNA(r.windheading)
                 /\ IF r.Time \in RainKeys
                    THEN r.rain_mm = RowWithKey(ingest.rain2, r.Time).rain_mm
                    ELSE IsNA(r.rain_mm)

\* A batch with a minute in both streams, one only in the meteorological
\* stream and one only in the rain stream.
C10_Witness ==
    /\ ingest.status = "ok"
    /\ MetKeys \cap RainKeys # {}
    /\ \E i \in DOMAIN ingest.merged :
         /\ ingest.merged[i].Time \in MetKeys \ RainKeys
         /\ ~IsNA(ingest.merged[i].temperature_c)
         /\ IsNA(ingest.merged[i].rain_mm)
    /\ \E i \in DOMAIN ingest.merged :
         /\ ingest.merged[i].Time \in RainKeys \ MetKeys
         /\ ~IsNA(ingest.merged[i].rain_mm)
         /\ IsNA(ingest.merged[i].temperature_c)

-----------------------------------------------------------------------------
(* Properties of the runs that fail or stop (under SpecOps) *)

UnparsedAtStart ==
    /\ start.taken
    /\ \E n \in DOMAIN start.importer : start.importer[n].kind = "error"

\* C11: a run that finds a file it cannot parse in importer/ raises in
\* ingest_import_folder and ends there: the Archive, importer/, arkiv/, the
\* monthly extracts, the snow files and the manifest are as they were when the
\* run began, and the run has written nothing.
C11_ParseFailureWritesNothing ==
    UnparsedAtStart =>
        /\ ingest.status = "raised"
        /\ ingest.error = "ValueError"
        /\ pc = "idle"
        /\ written = {}
        /\ weather_parquet = start.weather_parquet
        /\ importer = start.importer
        /\ arkiv = start.arkiv
        /\ data = start.data
        /\ manifest = start.manifest
        /\ snow_parquet = start.snow_parquet
        /\ snow_json = start.snow_json

\* A failed run on a file that parses and one that does not, over an Archive
\* and a manifest of an earlier run.
C11_Witness ==
    /\ UnparsedAtStart
    /\ ingest.status = "raised"
    /\ Cardinality(DOMAIN importer) = 2
    /\ \E n \in DOMAIN importer : importer[n].kind = "met"
    /\ Archive # <<>>
    /\ manifest # <<>>

\* C12: every file in arkiv/ has its readings in the persisted Archive; a call
\* of ingest_import_folder leaves the files already in arkiv/ as they were;
\* and after a call that completed, importer/ is empty and every file found
\* at the scan is in arkiv/ under a name of its own that was free before.
C12_MovedAfterPersisted ==
    /\ \A t \in DOMAIN arkiv :
         \A i \in DOMAIN arkiv[t].df.rows :
            FloorMin(arkiv[t].df.rows[i].Time) \in
                {Archive[j].Time : j \in DOMAIN Archive}
    /\ start.taken =>
         \A t \in DOMAIN start.arkiv :
            t \in DOMAIN arkiv /\ arkiv[t] = start.arkiv[t]
    /\ (start.taken /\ ingest.status = "ok") =>
         /\ importer = <<>>
         /\ {ingest.moved[i].name : i \in DOMAIN ingest.moved}
               = DOMAIN start.importer
         /\ \A i \in DOMAIN ingest.moved :
               /\ ingest.moved[i].target \notin DOMAIN start.arkiv
               /\ ingest.moved[i].target \in DOMAIN arkiv
               /\ arkiv[ingest.moved[i].target]
                    = start.importer[ingest.moved[i].name]
               /\ \A j \in DOMAIN ingest.moved :
                     ingest.moved[j].target = ingest.moved[i].target => j = i

\* A completed ingest of two files, one of them under a name and a period
\* already in arkiv/, which got the suffix (2).
C12_Witness ==
    /\ start.taken
    /\ ingest.status = "ok"
    /\ Len(ingest.moved) = 2
    /\ \E i \in DOMAIN ingest.moved : ingest.moved[i].target[3] = 2
    /\ Cardinality(DOMAIN arkiv) >= 3

-----------------------------------------------------------------------------
(* Properties of the snow ledger (under SpecSnow) *)

Ledger == Load(snow_parquet)

SnowFailure ==
    /\ start.taken
    /\ ingest.status \in {"ok", "empty"}
    /\ sno_csv # <<>>
    /\ SnowRaises(sno_csv[1])

\* C13: in a run whose ingest_snow_file raises, the Snow Ledger stays as it
\* was, the readings the run merged stay in the Archive, and the run goes on
\* to its end: the monthly extracts and the manifest are those of the Archive
\* and the snow extract is that of the Snow Ledger.
C13_SnowFailureCaught ==
    SnowFailure =>
        /\ snow_parquet = start.snow_parquet
        /\ \A i \in DOMAIN ingest.merged :
              \E j \in DOMAIN Archive : Archive[j].Time = ingest.merged[i].Time
        /\ pc = "idle" =>
             /\ clean
             /\ {"snow.json", "manifest.json"} \subseteq written
             /\ manifest = <<[months |-> MonthList(Archive), snow |-> "snow.json"]>>
             /\ \A m \in MonthsOf(Archive) :
                   m \in DOMAIN data /\ data[m] = MonthlyFiles(Archive)[m]
             /\ snow_json = <<SnowExtract(Ledger)>>

\* Such a run at its end, which merged a file into the Archive and found a
\* Snow Ledger of an earlier run.
C13_Witness ==
    /\ SnowFailure
    /\ pc = "idle"
    /\ clean
    /\ ingest.status = "ok"
    /\ "weather.parquet" \in written
    /\ Ledger # <<>>
    /\ manifest # <<>>

\* C14: the Snow Ledger holds one record per date, and the record of a date
\* holds the value of the last row with a value for that date in the most
\* recently ingested sno.csv that has such a row.
C14_LastWriteWins ==
    /\ \A i, j \in DOMAIN Ledger : Ledger[i].Time = Ledger[j].Time => i = j
    /\ \A i \in DOMAIN Ledger :
          /\ Ledger[i].Time \in DOMAIN snow_latest
          /\ Ledger[i].snow_cm = snow_latest[Ledger[i].Time]

Keys(rows) == {rows[i].Time : i \in DOMAIN rows}

\* C20: no step of any run, failed or not, and no edit of manuelt/sno.csv
\* removes a timestamp from the persisted Archive or a date from the
\* persisted Snow Ledger.
C20_KeysNeverLost ==
    [][/\ Keys(Archive) \subseteq Keys(Archive')
       /\ Keys(Ledger) \subseteq Keys(Ledger')]_vars

\* A run has merged a sno.csv from which a date of the Snow Ledger had been
\* removed, and the Archive holds the minutes of two files.
C20_Witness ==
    /\ pc = "idle"
    /\ clean
    /\ "snow.parquet" \in written
    /\ sno_csv # <<>>
    /\ \E d \in Keys(Ledger) : d \notin DOMAIN LastInFile(sno_csv[1])
    /\ Cardinality(Keys(Archive)) >= 2

-----------------------------------------------------------------------------
(* Properties of the extracts and the manifest (under SpecMonths) *)

\* generate_monthly_json() of this run has returned and the Archive is the
\* one it read.
Generated ==
    \/ pc \in {"generate_snow_json", "write_manifest", "write_index_html"}
    \/ pc = "idle" /\ clean

ExtractFields ==
    {"temperature_c", "humidity_rh", "windspeed_kmh", "windheading", "rain_mm"}

RECURSIVE SumLen(_, _)
SumLen(files, S) ==
    IF S = {} THEN 0
    ELSE LET m == CHOOSE x \in S : TRUE
         IN  Len(files[m].time) + SumLen(files, S \ {m})

\* C15: after generate_monthly_json every Reading of the Archive is in the
\* extract of the month of its time and in no other, with its five values at
\* the index of its time; the six arrays of an extract have one length and
\* the times ascend; the lengths of the extracts add up to the size of the
\* Archive.
C15_MonthlyPartition ==
    Generated =>
        /\ \A i \in DOMAIN Archive :
              LET r == Archive[i]
              IN  /\ MonthOf(r.Time) \in DOMAIN data
                  /\ \A m \in DOMAIN data :
                        (\E k \in DOMAIN data[m].time : data[m].time[k] = r.Time)
                            <=> m = MonthOf(r.Time)
                  /\ \E k \in DOMAIN data[MonthOf(r.Time)].time :
                        /\ data[MonthOf(r.Time)].time[k] = r.Time
                        /\ \A c \in ExtractFields :
                              data[MonthOf(r.Time)][c][k] = r[c]
        /\ \A m \in DOMAIN data :
              /\ \A c \in ExtractFields : Len(data[m][c]) = Len(data[m].time)
              /\ \A k \in 1..(Len(data[m].time) - 1) :
                    data[m].time[k] < data[m].time[k + 1]
        /\ SumLen(data, DOMAIN data) = Len(Archive)

\* Three extracts, one of them of several readings, one of them with a
\* reading of the rain alone.
C15_Witness ==
    /\ pc = "idle"
    /\ clean
    /\ Cardinality(DOMAIN data) = 3
    /\ \E m \in DOMAIN data : Len(data[m].time) >= 2
    /\ \E i \in DOMAIN Archive : IsNA(Archive[i].temperature_c)

\* write_manifest() of this run has returned.
ManifestWritten ==
    \/ pc = "write_index_html"
    \/ pc = "idle" /\ clean

\* C16: the manifest of a run lists the months of the Archive, each once, the
\* newest first, each with its file.
C16_ManifestDescending ==
    ManifestWritten =>
        /\ Len(manifest) = 1
        /\ LET ms == manifest[1].months
           IN  /\ {ms[i].label : i \in DOMAIN ms} = MonthsOf(Archive)
               /\ \A i, j \in DOMAIN ms : i < j => ms[i].label > ms[j].label
               /\ \A i \in DOMAIN ms : ms[i].file = ms[i].label

\* January and March were in the Archive before the run that merged
\* February.
C16_Witness ==
    /\ pc = "idle"
    /\ clean
    /\ start.taken
    /\ MonthsOf(Load(start.weather_parquet)) = {1, 3}
    /\ MonthsOf(Archive) = {1, 2, 3}
    /\ Len(manifest) = 1
    /\ [i \in DOMAIN manifest[1].months |-> manifest[1].months[i].label]
           = <<3, 2, 1>>

-----------------------------------------------------------------------------
(* Properties of the files on disk (under SpecOps) *)

Listed == IF manifest = <<>> THEN {}
          ELSE {manifest[1].months[i].file : i \in DOMAIN manifest[1].months}

\* C18: in every state of every run, stopped or not, the monthly extracts the
\* manifest on disk lists and data/snow.json exist; a run that has written
\* the manifest has written the snow extract and the monthly extracts before;
\* and no step removes a month from the months the manifest lists.
C18_ManifestNamesExistingFiles ==
    /\ [](/\ Listed \subseteq DOMAIN data
          /\ manifest # <<>> => snow_json # <<>>
          /\ "manifest.json" \in written =>
                /\ "snow.json" \in written
                /\ Archive # <<>> => "months" \in written)
    /\ [][Listed \subseteq Listed']_vars

\* A run has stopped after it wrote the extract of a new month: the manifest
\* of an earlier run is on disk and does not list that month.
C18_Witness ==
    /\ pc = "idle"
    /\ ~clean
    /\ "months" \in written
    /\ manifest # <<>>
    /\ Listed # {}
    /\ \E m \in DOMAIN data : m \notin Listed

-----------------------------------------------------------------------------
(* Properties of parse_station_csv (under SpecParse) *)

RawIn(dir) == {dir[n] : n \in {k \in DOMAIN dir : "raw" \in DOMAIN dir[k]}}

\* A column named "time" in any letter case.
NamedTime(header) == {i \in DOMAIN header : LowerName(header[i]) = LowerName(NameTime)}

\* A column of the date and another column of the time.
DateAndTime(header) ==
    \E i, j \in DOMAIN header :
        /\ i # j
        /\ IsInfix(Keywords.date[1], LowerName(header[i]))
        /\ IsInfix(Keywords.time[1], LowerName(header[j]))

\* C17: a file with a column named "time" in any letter case and no column
\* of the date parses, each row at the date and time of that column; and a
\* file fails to parse only when it has neither a column named "time" nor a
\* column of the date and a column of the time.
C17_TimeAnyCase ==
    \A f \in RawIn(importer) \cup RawIn(arkiv) :
        /\ (NamedTime(f.raw.header) # {} /\ FindCol(f.raw.header, Keywords.date) = 0)
              => /\ f.kind # "error"
                 /\ \A n \in NamedTime(f.raw.header) :
                       {V(f.df.rows[i].Time) : i \in DOMAIN f.df.rows}
                           = {ToDatetime(f.raw.rows[i][n]) : i \in DOMAIN f.raw.rows}
        /\ f.kind = "error"
              => NamedTime(f.raw.header) = {} /\ ~DateAndTime(f.raw.header)

-----------------------------------------------------------------------------
(* Properties of the forward-fill of the heading (under Spec) *)

\* The times before t whose latest batch gave a heading.
HeadingKnownBefore(t) ==
    {u \in DOMAIN latest : u < t /\ ~IsNA(latest[u].windheading)}

OtherFields == {"Time", "temperature_c", "humidity_rh", "windspeed_kmh", "rain_mm"}

\* C19: a Reading of the Archive whose latest batch gave it no heading has
\* the heading that the latest batch of the nearest earlier Reading with a
\* heading gave, and none when there is no such Reading; and after a merge
\* every Reading of the Archive has, in every field but the heading, the
\* values of a row of the Archive before the merge or of the batch.
C19_HeadingFromNearestEarlier ==
    /\ \A i \in DOMAIN Archive :
          LET r == Archive[i]
          IN  (r.Time \in DOMAIN latest /\ IsNA(latest[r.Time].windheading))
                  => r.windheading =
                        IF HeadingKnownBefore(r.Time) = {} THEN NA
                        ELSE latest[Greatest(HeadingKnownBefore(r.Time))].windheading
    /\ (start.taken /\ ingest.status = "ok") =>
          \A i \in DOMAIN Archive :
              \E q \in {Load(start.weather_parquet)[j] :
                            j \in DOMAIN Load(start.weather_parquet)}
                       \cup {ingest.merged[j] : j \in DOMAIN ingest.merged} :
                  \A c \in OtherFields : q[c] = Archive[i][c]

====
